---------------------------- MODULE Spec2Model ----------------------------
(***************************************************************************)
(* Schema inference and standardization engine of OpenRFM                  *)
(* (src/schemas.py) and its caller process_rfm (src/app.py).               *)
(*                                                                         *)
(* Scores are fixed-point integers: ONE (60000) stands for 1.0, so that    *)
(* 0.3 * ratio/100, 0.5 * nunique/len and the penalties 0.6, 0.5 and 0.4   *)
(* stay exact for the row counts used here.  Ratios are compared by cross  *)
(* multiplication.  Text is a tuple of one-character strings.              *)
(***************************************************************************)
EXTENDS Integers, Sequences, FiniteSets, TLC

VARIABLES
    request,            \* process_rfm: the request (file, its table), or None
    df,                 \* the caller's table: a sequence of [name, cells] columns
    scores,             \* infer_schema: target -> list of ColumnScore
    target_order,       \* infer_schema: the targets, most confident first
    ti,                 \* infer_schema: position of the greedy loop in target_order
    mapping,            \* infer_schema: target -> source column (partial)
    used_columns,       \* infer_schema: set of source columns already taken
    schema,             \* the mapping infer_schema returned (with scores), or None
    error,              \* the raised SchemaInferenceError, or None
    standardized,       \* infer_and_standardize_rfm: the standardized copy, or None
    diagnostics,        \* infer_and_standardize_rfm: the diagnostics, or None
    rfm_df,             \* process_rfm: customer -> Frequency, or None
    selected_clusters,  \* process_rfm: the request's cluster_size, once used
    optimal_clusters,   \* process_rfm: the number of clusters applied, 0 before
    results_file,       \* uploads/rfm_results.csv: [request, data], or None
    response,           \* process_rfm: the response, or None
    runs,               \* number of the current call
    prev,               \* outcome of the previous call on the same input, or None
    pc                  \* control position

inferVars == <<scores, target_order, ti, mapping, used_columns, schema, error>>

stdVars == <<standardized, diagnostics>>

appVars == <<rfm_df, selected_clusters, optimal_clusters, results_file, response>>

callVars == <<request, runs, prev>>

vars == <<df, inferVars, stdVars, appVars, callVars, pc>>

None == <<>>

\* ------------------------------------------------------------------ bounds
MaxCols == 3

NRows == 4

MaxRuns == 2

\* --------------------------------------------------------------- constants
ONE == 60000

TARGET_COLUMNS == <<"CustomerID", "TransactionDate", "TransactionAmount">>

Targets == {TARGET_COLUMNS[i] : i \in 1..Len(TARGET_COLUMNS)}

\* 0.55
MIN_INFERENCE_SCORE == 33000

min_score == MIN_INFERENCE_SCORE

\* ----------------------------------------------------------------- helpers
Range(s) == {s[i] : i \in 1..Len(s)}

Max(a, b) == IF a >= b THEN a ELSE b

Min(a, b) == IF a <= b THEN a ELSE b

\* ------------------------------------------------------------------- text
Digits == {"0", "1", "2", "3", "4", "5", "6", "7", "8", "9"}

\* str.replace(c, "") for every c in chars
Without(s, chars) == SelectSeq(s, LAMBDA c : c \notin chars)

\* re.sub(r"\s+", " ", s), for texts whose only blank is the space
RECURSIVE CollapseSpaces(_)
CollapseSpaces(s) ==
    IF Len(s) <= 1 THEN s
    ELSE IF s[1] = " " /\ s[2] = " " THEN CollapseSpaces(Tail(s))
    ELSE <<s[1]>> \o CollapseSpaces(Tail(s))

Contains(s, sub) ==
    \E i \in 0..(Len(s) - Len(sub)) : SubSeq(s, i + 1, i + Len(sub)) = sub

ContainsAny(s, subs) == \E sub \in subs : Contains(s, sub)

EndsWith(s, sub) ==
    /\ Len(sub) <= Len(s)
    /\ SubSeq(s, Len(s) - Len(sub) + 1, Len(s)) = sub

\* the regular expression a.*b
FollowedBy(s, a, b) ==
    \E i \in 0..(Len(s) - Len(a)) :
        /\ SubSeq(s, i + 1, i + Len(a)) = a
        /\ Contains(SubSeq(s, i + Len(a) + 1, Len(s)), b)

\* str.lower(), on the capitals that occur in the column names used here
LowerChar(c) ==
    CASE c = "Q" -> "q"
      [] c = "U" -> "u"
      [] c = "P" -> "p"
      [] OTHER   -> c

Lower(s) == [i \in 1..Len(s) |-> LowerChar(s[i])]

\* str.strip()
Strip(s) ==
    LET inked == {i \in 1..Len(s) : s[i] # " "}
    IN IF inked = {} THEN <<>>
       ELSE SubSeq(s, CHOOSE i \in inked : \A j \in inked : i <= j,
                      CHOOSE i \in inked : \A j \in inked : i >= j)

\* re.sub(r"\s+", " ", name.replace("_", " ").replace("-", " ")).strip().lower()
NormaliseColumnName(name) ==
    LET spaced == [i \in 1..Len(name) |->
                     IF name[i] \in {"_", "-"} THEN " " ELSE name[i]]
    IN Lower(Strip(CollapseSpaces(spaced)))

\* max over NAME_KEYWORDS[target] of fuzz.partial_ratio(cleaned, keyword), in
\* percent: the values fuzzywuzzy's partial_ratio gives for the cleaned names
\* of the column names used here.
FuzzRatio(cleaned, target) ==
    LET row ==
        CASE cleaned = <<"c","u","s","t","o","m","e","r"," ","i","d">> -> <<100, 59, 44>>
          [] cleaned = <<"s","a","l","e"," ","d","a","t","e">> -> <<50, 100, 80>>
          [] cleaned = <<"a","m","o","u","n","t">> -> <<67, 50, 100>>
          [] cleaned = <<"u","n","i","t","s"," ","s","o","l","d">> -> <<43, 46, 50>>
          [] cleaned = <<"t","o","t","a","l"," ","u","n","i","t","s">> -> <<57, 44, 100>>
          [] cleaned = <<"u","n","i","t"," ","p","r","i","c","e">> -> <<50, 62, 100>>
          [] cleaned = <<"s","u","m">> -> <<67, 40, 33>>
          [] cleaned = <<"q","u","a","n","t","i","t","y">> -> <<46, 50, 50>>
          [] cleaned = <<"u","n","i","t","p","r","i","c","e">> -> <<50, 62, 100>>
          [] cleaned = <<"c","a","l","c","u","l","a","t","e","d"," ","a","m","o","u","n","t">> -> <<71, 75, 100>>
          [] OTHER -> <<0, 0, 0>>
    IN CASE target = "CustomerID"        -> row[1]
         [] target = "TransactionDate"   -> row[2]
         [] target = "TransactionAmount" -> row[3]

\* _name_similarity_score, in percent (the code divides by 100.0)
NameSimilarityScore(column_name, target) ==
    FuzzRatio(NormaliseColumnName(column_name), target)

\* prefix[_-]?id
OptSepId(prefix) ==
    {prefix \o <<"i","d">>, prefix \o <<"_","i","d">>, prefix \o <<"-","i","d">>}

\* REGEX_HINTS: whether some pattern of the target is found in the text
RegexHit(text, target) ==
    CASE target = "CustomerID" ->
           ContainsAny(text,
               OptSepId(<<"c","u","s","t">>)
               \cup OptSepId(<<"c","u","s","t","o","m","e","r">>)
               \cup OptSepId(<<"c","l","i","e","n","t">>)
               \cup OptSepId(<<"a","c","c","o","u","n","t">>)
               \cup OptSepId(<<"u","s","e","r">>))
      [] target = "TransactionDate" ->
           \/ \E w \in {<<"t","r","a","n","s">>, <<"o","r","d","e","r">>,
                        <<"s","a","l","e">>, <<"p","u","r","c","h","a","s","e">>,
                        <<"i","n","v","o","i","c","e">>} :
                  FollowedBy(text, w, <<"d","a","t","e">>)
           \/ EndsWith(text, <<"d","a","t","e">>)
           \/ Contains(text, <<"t","i","m","e","s","t","a","m","p">>)
      [] target = "TransactionAmount" ->
           \/ ContainsAny(text,
                  {<<"s","a","l","e","s">>, <<"r","e","v","e","n","u","e">>,
                   <<"t","o","t","a","l">>, <<"a","m","o","u","n","t">>,
                   <<"s","p","e","n","d">>, <<"v","a","l","u","e">>,
                   <<"c","h","a","r","g","e">>})
           \/ \E w \in {<<"n","e","t">>, <<"g","r","o","s","s">>} :
                  FollowedBy(text, w, <<"a","m","o","u","n","t">>)
           \/ Contains(text, <<"p","a","y","m","e","n","t">>)

\* _regex_bonus: 0.4 or 0.0, searched in column_name.lower()
RegexBonus(column_name, target) ==
    IF RegexHit(Lower(column_name), target) THEN (4 * ONE) \div 10 ELSE 0

NEGATIVE_AMOUNT_KEYWORDS ==
    {<<"q","u","a","n","t","i","t","y">>, <<"q","t","y">>,
     <<"c","o","u","n","t">>, <<"u","n","i","t","s">>, <<"u","n","i","t">>,
     <<"v","o","l","u","m","e">>}

\* ------------------------------------------------------------------ values
\* A cell is a text, or NaN (missing).
NaN == <<"NaN">>

\* Series.dropna()
DropNa(series) == SelectSeq(series, LAMBDA c : c # NaN)

\* Series.astype(str), cell by cell: a missing value becomes the text "nan"
AsStr(c) == IF c = NaN THEN <<"n","a","n">> ELSE c

\* the three str.replace calls of _attempt_numeric
CleanNumericText(t) ==
    LET kept   == Without(t, {",", "$"})
        opened == [i \in 1..Len(kept) |-> IF kept[i] = "(" THEN "-" ELSE kept[i]]
    IN Without(opened, {")"})

\* whether pd.to_numeric reads the text as a number: optional blanks around
\* an optional sign, digits and at most one decimal point
IsNumberText(t) ==
    LET s    == Strip(t)
        body == IF Len(s) > 0 /\ s[1] \in {"-", "+"} THEN Tail(s) ELSE s
    IN /\ Len(body) > 0
       /\ \A i \in 1..Len(body) : body[i] \in Digits \cup {"."}
       /\ Cardinality({i \in 1..Len(body) : body[i] = "."}) <= 1
       /\ \E i \in 1..Len(body) : body[i] \in Digits

\* pd.to_numeric(errors="coerce") of one cleaned text: the number, kept as
\* its text, or NaN
ToNumeric(t) == IF IsNumberText(t) THEN Strip(t) ELSE NaN

\* number > 0, for a number kept as its text
IsPositive(n) ==
    /\ n # NaN
    /\ n[1] # "-"
    /\ \E i \in 1..Len(n) : n[i] \in Digits \ {"0"}

\* number of cells of the series that satisfy P
CountOf(series, P(_)) == Cardinality({i \in 1..Len(series) : P(series[i])})

\* _attempt_numeric: the numeric series and the coerced count (the ratio is
\* valid / len, 0.0 for an empty series)
AttemptNumeric(series) ==
    LET numeric == [i \in 1..Len(series) |->
                      ToNumeric(CleanNumericText(AsStr(series[i])))]
    IN [numeric |-> numeric,
        valid   |-> CountOf(numeric, LAMBDA n : n # NaN),
        total   |-> Len(series)]

\* whether pd.to_datetime reads the cell as a date: an ISO date YYYY-MM-DD, or
\* a whole number (pandas turns the values of an integer column into
\* timestamps counted from the epoch; whole numbers occur here only in
\* columns that hold nothing else)
IsDateCell(c) ==
    \/ /\ c # NaN
       /\ Len(c) = 10
       /\ c[5] = "-"
       /\ c[8] = "-"
       /\ \A i \in {1, 2, 3, 4, 6, 7, 9, 10} : c[i] \in Digits
    \/ /\ c # NaN
       /\ Len(c) > 0
       /\ \A i \in 1..Len(c) : c[i] \in Digits

\* _attempt_datetime: the parsed series (NaN for NaT) and the parsed count
AttemptDatetime(series) ==
    LET parsed == [i \in 1..Len(series) |->
                     IF IsDateCell(series[i]) THEN series[i] ELSE NaN]
    IN [parsed |-> parsed,
        valid  |-> CountOf(parsed, LAMBDA d : d # NaN),
        total  |-> Len(series)]

\* a / b >= num / den and a / b > num / den, for b > 0; 0.0 when b = 0
RatioGe(a, b, num, den) == IF b = 0 THEN 0 >= num ELSE a * den >= num * b

RatioGt(a, b, num, den) == IF b = 0 THEN 0 > num ELSE a * den > num * b

RatioLt(a, b, num, den) == ~RatioGe(a, b, num, den)

\* round(a / b, 3), in thousandths
Round3(a, b) == IF b = 0 THEN 0 ELSE (2000 * a + b) \div (2 * b)

\* ----------------------------------------------------------------- scorers
EmptyColumnScore(column_name) ==
    [column |-> column_name, score |-> 0, components |-> [non_null_ratio |-> 0]]

\* min(0.3, name_score * 0.3) + regex_score
NamePart(column_name, target) ==
    Min((3 * ONE) \div 10, (NameSimilarityScore(column_name, target) * 3 * ONE) \div 1000)
    + RegexBonus(column_name, target)

\* numeric_ratio > 0.9 and unique_ratio < 0.3
CustomerIdPenalised(valid, nunique, total) ==
    RatioGt(valid, total, 9, 10) /\ RatioLt(nunique, total, 3, 10)

\* _score_customer_id
ScoreCustomerId(column_name, series) ==
    LET non_null == DropNa(series)
        nunique  == Cardinality(Range(non_null))
        total    == Max(Len(non_null), 1)
        num      == AttemptNumeric(non_null)
        base     == NamePart(column_name, "CustomerID")
                    + (Min(nunique, total) * (ONE \div 2)) \div total
        score    == IF CustomerIdPenalised(num.valid, nunique, num.total)
                    THEN (base * 6) \div 10 ELSE base
    IN IF Len(non_null) = 0 THEN EmptyColumnScore(column_name)
       ELSE [column |-> column_name,
             score  |-> Min(score, ONE),
             components |->
                [name_similarity |-> 10 * NameSimilarityScore(column_name, "CustomerID"),
                 regex_bonus     |-> RegexBonus(column_name, "CustomerID"),
                 unique_ratio    |-> Round3(nunique, total),
                 numeric_ratio   |-> Round3(num.valid, num.total)]]

\* numeric_ratio > 0.8 and valid_ratio < 0.4
DatePenalised(numeric_valid, date_valid, total) ==
    RatioGt(numeric_valid, total, 8, 10) /\ RatioLt(date_valid, total, 4, 10)

\* _score_transaction_date
ScoreTransactionDate(column_name, series) ==
    LET non_null == DropNa(series)
        dt       == AttemptDatetime(non_null)
        num      == AttemptNumeric(non_null)
        base     == NamePart(column_name, "TransactionDate")
                    + (IF RatioGe(dt.valid, dt.total, 7, 10) THEN (6 * ONE) \div 10
                       ELSE IF RatioGe(dt.valid, dt.total, 4, 10) THEN (35 * ONE) \div 100
                       ELSE 0)
        score    == IF DatePenalised(num.valid, dt.valid, dt.total)
                    THEN (base * 5) \div 10 ELSE base
    IN IF Len(non_null) = 0 THEN EmptyColumnScore(column_name)
       ELSE [column |-> column_name,
             score  |-> Min(score, ONE),
             components |->
                [name_similarity      |-> 10 * NameSimilarityScore(column_name, "TransactionDate"),
                 regex_bonus          |-> RegexBonus(column_name, "TransactionDate"),
                 valid_datetime_ratio |-> Round3(dt.valid, dt.total)]]

\* any(keyword in cleaned_name for keyword in NEGATIVE_AMOUNT_KEYWORDS)
HasNegativeKeyword(column_name) ==
    ContainsAny(NormaliseColumnName(column_name), NEGATIVE_AMOUNT_KEYWORDS)

\* _score_transaction_amount
ScoreTransactionAmount(column_name, series) ==
    LET non_null == DropNa(series)
        num      == AttemptNumeric(non_null)
        parsed   == DropNa(num.numeric)
        positive == CountOf(parsed, IsPositive)
        dt       == AttemptDatetime(non_null)
        typed    == NamePart(column_name, "TransactionAmount")
                    + (IF RatioGe(num.valid, num.total, 7, 10) THEN (6 * ONE) \div 10
                       ELSE IF RatioGe(num.valid, num.total, 5, 10) THEN (4 * ONE) \div 10
                       ELSE 0)
        signed   == IF num.valid > 0 /\ RatioGe(positive, Len(parsed), 7, 10)
                    THEN typed + ONE \div 10 ELSE typed
        dated    == IF RatioGt(dt.valid, dt.total, 4, 10) /\ RatioLt(num.valid, num.total, 5, 10)
                    THEN (signed * 4) \div 10 ELSE signed
        score    == IF HasNegativeKeyword(column_name)
                    THEN (dated * 5) \div 10 ELSE dated
    IN IF Len(non_null) = 0 THEN EmptyColumnScore(column_name)
       ELSE [column |-> column_name,
             score  |-> Min(score, ONE),
             components |->
                IF num.valid > 0
                THEN [name_similarity     |-> 10 * NameSimilarityScore(column_name, "TransactionAmount"),
                      regex_bonus         |-> RegexBonus(column_name, "TransactionAmount"),
                      valid_numeric_ratio |-> Round3(num.valid, num.total),
                      positive_ratio      |-> Round3(positive, Len(parsed))]
                ELSE [name_similarity     |-> 10 * NameSimilarityScore(column_name, "TransactionAmount"),
                      regex_bonus         |-> RegexBonus(column_name, "TransactionAmount"),
                      valid_numeric_ratio |-> Round3(num.valid, num.total)]]

\* SCORERS[target](column, series)
Scorer(target, column_name, series) ==
    CASE target = "CustomerID"        -> ScoreCustomerId(column_name, series)
      [] target = "TransactionDate"   -> ScoreTransactionDate(column_name, series)
      [] target = "TransactionAmount" -> ScoreTransactionAmount(column_name, series)

\* ---------------------------------------------------------------- resolver
\* Position (1-based) that element i of s takes in sorted(s, key=score,
\* reverse=True): Python's sort is stable, also with reverse=True, so equal
\* scores keep their original order.
SortPos(s, i) ==
    Cardinality({j \in 1..Len(s) :
        \/ s[j].score > s[i].score
        \/ (s[j].score = s[i].score /\ j < i)}) + 1

SortedByScoreDesc(s) ==
    [k \in 1..Len(s) |-> s[CHOOSE i \in 1..Len(s) : SortPos(s, i) = k]]

\* max((s.score for s in scores[target]), default=0.0)
BestScore(list) ==
    IF Len(list) = 0 THEN 0
    ELSE LET m == CHOOSE i \in 1..Len(list) :
                      \A j \in 1..Len(list) : list[i].score >= list[j].score
         IN list[m].score

\* the roles taken in the order of TARGET_COLUMNS, unsorted
TargetOrderAsListed(sc) == TARGET_COLUMNS

\* sorted(TARGET_COLUMNS, key=best score of the target, reverse=True)
TargetOrder(sc) ==
    LET keyed == [i \in 1..Len(TARGET_COLUMNS) |->
                    [target |-> TARGET_COLUMNS[i],
                     score  |-> BestScore(sc[TARGET_COLUMNS[i]])]]
        sorted == SortedByScoreDesc(keyed)
    IN [i \in 1..Len(sorted) |-> sorted[i].target]

\* FirstQualifying that tries the top candidate only
FirstQualifyingTopOnly(candidates, used, threshold) ==
    IF Len(candidates) > 0
       /\ candidates[1].column \notin used
       /\ candidates[1].score >= threshold
    THEN 1 ELSE 0

\* FirstQualifying without the check of used_columns
FirstQualifyingAnyColumn(candidates, used, threshold) ==
    LET ok == {i \in 1..Len(candidates) : candidates[i].score >= threshold}
    IN IF ok = {} THEN 0
       ELSE CHOOSE i \in ok : \A j \in ok : i <= j

\* FirstQualifying without the minimum score
FirstQualifyingNoFloor(candidates, used, threshold) ==
    LET ok == {i \in 1..Len(candidates) : candidates[i].column \notin used}
    IN IF ok = {} THEN 0
       ELSE CHOOSE i \in ok : \A j \in ok : i <= j

\* FirstQualifying with score > min_score
FirstQualifyingStrict(candidates, used, threshold) ==
    LET ok == {i \in 1..Len(candidates) :
                  /\ candidates[i].column \notin used
                  /\ candidates[i].score > threshold}
    IN IF ok = {} THEN 0
       ELSE CHOOSE i \in ok : \A j \in ok : i <= j

\* The inner loop of the greedy pass: the first candidate, in descending
\* score order, whose column is unused and whose score reaches the minimum.
\* 0 when the loop ends without a break.
FirstQualifying(candidates, used, threshold) ==
    LET ok == {i \in 1..Len(candidates) :
                  /\ candidates[i].column \notin used
                  /\ candidates[i].score >= threshold}
    IN IF ok = {} THEN 0
       ELSE CHOOSE i \in ok : \A j \in ok : i <= j

\* MissingTargets that does not require TransactionAmount
MissingTargetsButAmount(m) ==
    SelectSeq(TARGET_COLUMNS, LAMBDA t : t \notin DOMAIN m /\ t # "TransactionAmount")

\* missing_targets = [t for t in TARGET_COLUMNS if t not in mapping]
MissingTargets(m) ==
    SelectSeq(TARGET_COLUMNS, LAMBDA t : t \notin DOMAIN m)

\* round(score, 3): to the nearest thousandth, a half upwards
RoundScore(x) == ((x + (ONE \div 2000)) \div (ONE \div 1000)) * (ONE \div 1000)

\* Suggestion that takes the last of the candidates with the highest score
SuggestionLastBest(list) ==
    IF Len(list) = 0 THEN None
    ELSE LET best == {i \in 1..Len(list) : \A j \in 1..Len(list) : list[i].score >= list[j].score}
             top  == list[CHOOSE i \in best : \A j \in best : i >= j]
         IN [best_column |-> top.column,
             score       |-> RoundScore(top.score),
             components  |-> top.components]

\* suggestions[target]: the top of the candidates sorted by score, or None
Suggestion(list) ==
    IF Len(list) = 0 THEN None
    ELSE LET top == SortedByScoreDesc(list)[1]
         IN [best_column |-> top.column,
             score       |-> RoundScore(top.score),
             components  |-> top.components]

Suggestions(sc, missing) ==
    [t \in Range(missing) |-> Suggestion(sc[t])]

\* SchemaInferenceError(message, details): the message is the fixed text
\* around ", ".join(missing_targets), kept as the joined list.
SchemaInferenceError(sc, missing) ==
    [message |-> [prefix |-> "Unable to infer required columns: ",
                  names  |-> missing,
                  suffix |-> ". Please rename the relevant fields or supply mapping hints."],
     details |-> [suggestions |-> Suggestions(sc, missing)]]

EmptyMapping == [t \in {} |-> None]

\* ------------------------------------------------------------------ tables
\* the canonical column names, as texts
TargetName(t) ==
    CASE t = "CustomerID"        -> <<"C","u","s","t","o","m","e","r","I","D">>
      [] t = "TransactionDate"   -> <<"T","r","a","n","s","a","c","t","i","o","n","D","a","t","e">>
      [] t = "TransactionAmount" -> <<"T","r","a","n","s","a","c","t","i","o","n","A","m","o","u","n","t">>

Names(table) == {table[i].name : i \in 1..Len(table)}

\* df[name]
Col(table, name) ==
    table[CHOOSE i \in 1..Len(table) : table[i].name = name].cells

\* df[name] = cells
SetCol(table, name, cells) ==
    [i \in 1..Len(table) |->
        IF table[i].name = name THEN [name |-> name, cells |-> cells] ELSE table[i]]

NumRows(table) == IF Len(table) = 0 THEN 0 ELSE Len(table[1].cells)

DigitText == <<"0", "1", "2", "3", "4", "5", "6", "7", "8", "9">>

DigitOf(i) == DigitText[(i % 10) + 1]

DigitValue(c) == CHOOSE v \in 0..9 : DigitText[v + 1] = c

\* --------------------------------------------------- inputs of the pipeline
\* Value profiles of NRows cells each.
TextUnique == [i \in 1..NRows |-> <<"C", "-", DigitOf(i)>>]

TextRepeat == [i \in 1..NRows |-> <<"C", "-", "1">>]

TextPairs == [i \in 1..NRows |-> <<"C", "-", DigitOf(1 + (i % 2))>>]

TextGappy ==
    [i \in 1..NRows |->
        IF i = 1 THEN NaN ELSE IF i = 2 THEN <<" ">> ELSE <<"C", "-", DigitOf(i)>>]

NumRepeat == [i \in 1..NRows |-> <<"7">>]

SmallInts == [i \in 1..NRows |-> <<DigitOf(i)>>]

Dates == [i \in 1..NRows |-> <<"2","0","2","3","-","0","1","-","0", DigitOf(i)>>]

DatesGappy ==
    [i \in 1..NRows |->
        IF i = NRows THEN <<"n","/","a">>
        ELSE <<"2","0","2","3","-","0","1","-","0", DigitOf(i)>>]

Currency == [i \in 1..NRows |-> <<"$", " ", "1", "2", DigitOf(i)>>]

CurrencyGappy ==
    [i \in 1..NRows |->
        IF i = 1 THEN NaN ELSE IF i = 3 THEN <<"n","/","a">>
        ELSE <<"$", "1", ",", "2", "0", DigitOf(i)>>]

Refunds == [i \in 1..NRows |-> <<"(", DigitOf(i), ".", "5", "0", ")">>]

Column(name, cells) == [name |-> name, cells |-> cells]

Catalogue ==
    <<Column(<<"c","u","s","t","o","m","e","r","_","i","d">>, TextUnique),
      Column(<<"s","a","l","e","_","d","a","t","e">>, Dates),
      Column(<<"a","m","o","u","n","t">>, Currency),
      Column(<<"c","u","s","t","o","m","e","r","_","i","d">>, NumRepeat),
      Column(<<"c","u","s","t","o","m","e","r","_","i","d">>, TextGappy),
      Column(<<"s","a","l","e","_","d","a","t","e">>, DatesGappy),
      Column(<<"a","m","o","u","n","t">>, CurrencyGappy),
      Column(<<"t","o","t","a","l","_","u","n","i","t","s">>, SmallInts),
      Column(<<"s","u","m">>, Refunds),
      Column(<<"u","n","i","t","s","_","s","o","l","d">>, SmallInts),
      Column(<<"u","n","i","t","_","p","r","i","c","e">>, Currency),
      Column(<<"c","u","s","t","o","m","e","r","_","i","d">>, TextPairs),
      Column(<<"c","u","s","t","o","m","e","r","_","i","d">>, TextRepeat),
      Column(<<"Q","u","a","n","t","i","t","y">>, SmallInts),
      Column(<<"U","n","i","t","P","r","i","c","e">>, SmallInts)>>

\* Increasing lists of n catalogue positions whose columns differ in name.
Picks(n) ==
    {p \in [1..n -> 1..Len(Catalogue)] :
        \A i, j \in 1..n : i < j => /\ p[i] < p[j]
                                    /\ Catalogue[p[i]].name # Catalogue[p[j]].name}

\* Tables of at most MaxCols catalogue columns with pairwise distinct names,
\* listed in the catalogue's order or in the reverse of it.
Tables ==
    UNION {{[k \in 1..n |-> Catalogue[p[k]]] : p \in Picks(n)}
           \cup {[k \in 1..n |-> Catalogue[p[n + 1 - k]]] : p \in Picks(n)} : n \in 0..MaxCols}

\* The requests: a readable csv or xlsx upload, a missing file, another file type.
Requests ==
    {[exists |-> TRUE, extension |-> e, table |-> t] : e \in {"csv", "xlsx"}, t \in Tables}
    \cup {[exists |-> FALSE, extension |-> "csv", table |-> <<>>],
          [exists |-> TRUE, extension |-> "txt", table |-> <<>>]}

\* cluster_size: "auto", or a number
ClusterSizes ==
    {[auto |-> TRUE, value |-> 0], [auto |-> FALSE, value |-> 1], [auto |-> FALSE, value |-> 3]}

\* ------------------------------------------------ inputs of the resolver
\* Column names of a table whose values are left open.
ColName(i) == <<"c", DigitOf(i)>>

OpenTable(n) == [i \in 1..n |-> [name |-> ColName(i), cells |-> <<>>]]

\* 0.3998, 0.55 (the threshold itself) and 0.70
ScoreLevels == {23990, 33000, 42000}

\* From the fourth column on only 0.3998 and 0.70, the same for every role.
LevelsFor(i) == IF i <= 3 THEN ScoreLevels ELSE {23990, 42000}

OpenScores(n) ==
    {sc \in [Targets -> [1..n -> ScoreLevels]] :
        \A t \in Targets : \A i \in 1..n :
            /\ sc[t][i] \in LevelsFor(i)
            /\ i > 3 => sc[t][i] = sc["CustomerID"][i]}

\* ---------------------------------------------------------- standardization
\* rename_map = {source: target for target, source in mapping.items()}
RenameMap(m) ==
    [source \in {m[t] : t \in DOMAIN m} |-> CHOOSE t \in DOMAIN m : m[t] = source]

\* RenameColumns as df.rename(columns=rename_map, inplace=True)
RenameColumnsInPlace(table, rename_map) ==
    LET renamed == [i \in 1..Len(table) |->
                      [name  |-> IF table[i].name \in DOMAIN rename_map
                                 THEN TargetName(rename_map[table[i].name]) ELSE table[i].name,
                       cells |-> table[i].cells]]
    IN [caller |-> renamed, copy |-> renamed]

\* df.rename(columns=rename_map).copy(): the caller's table as it is left,
\* and the new table
RenameColumns(table, rename_map) ==
    [caller |-> table,
     copy   |-> [i \in 1..Len(table) |->
                   [name  |-> IF table[i].name \in DOMAIN rename_map
                              THEN TargetName(rename_map[table[i].name]) ELSE table[i].name,
                    cells |-> table[i].cells]]]

\* _summarise_invalid: None, or the message with the count and the
\* percentage (kept to one decimal, as thousandths of the total)
SummariseInvalid(message, count, total) ==
    IF count <= 0 THEN None
    ELSE [message |-> message, count |-> count, percentage |-> Round3(count, total)]

\* diagnostics["warnings"].append(msg) when msg is not None
WithWarning(diag, msg) ==
    IF msg = None THEN diag
    ELSE [diag EXCEPT !.warnings = Append(@, msg)]

\* astype(str).str.strip(), then blank ids set to pd.NA
StrippedIds(cells) == [i \in 1..Len(cells) |-> Strip(AsStr(cells[i]))]

BlankToNa(ids) == [i \in 1..Len(ids) |-> IF ids[i] = <<>> THEN NaN ELSE ids[i]]

\* the amounts left as pd.to_numeric gave them
KeepNa(numeric) == numeric

\* numeric_amounts.fillna(0)
FillNaZero(numeric) ==
    [i \in 1..Len(numeric) |-> IF numeric[i] = NaN THEN <<"0">> ELSE numeric[i]]

\* ------------------------------------------------------------- process_rfm
CalculatedAmount == <<"_","_","c","a","l","c","u","l","a","t","e","d","_","a","m","o","u","n","t">>

QuantityName == <<"Q","u","a","n","t","i","t","y">>

UnitPriceName == <<"U","n","i","t","P","r","i","c","e">>

IsSmallNumber(c) == c # NaN /\ Len(c) = 1 /\ c[1] \in Digits

\* the product of two numbers below ten, as its text
Times(a, b) ==
    LET v == DigitValue(a[1]) * DigitValue(b[1])
    IN IF v < 10 THEN <<DigitOf(v)>> ELSE <<DigitOf(v \div 10), DigitOf(v % 10)>>

\* df["Quantity"] * df["UnitPrice"] is defined for numbers and missing values
CanMultiply(q, u) ==
    \A i \in 1..Len(q) : (q[i] = NaN \/ IsSmallNumber(q[i])) /\ (u[i] = NaN \/ IsSmallNumber(u[i]))

Product(q, u) ==
    [i \in 1..Len(q) |-> IF q[i] = NaN \/ u[i] = NaN THEN NaN ELSE Times(q[i], u[i])]

\* rows kept by df.dropna(subset=["CustomerID", "TransactionDate"])
KeptRows(table) ==
    {r \in 1..NumRows(table) :
        Col(table, TargetName("CustomerID"))[r] # NaN /\ Col(table, TargetName("TransactionDate"))[r] # NaN}

\* df.groupby("CustomerID").size(): customer -> Frequency
Frequency(table) ==
    LET ids  == Col(table, TargetName("CustomerID"))
        kept == KeptRows(table)
    IN [c \in {ids[r] : r \in kept} |-> Cardinality({r \in kept : ids[r] = c})]

Response(status, body) == [status |-> status, body |-> body]

\* the cluster counts np.argmax(np.diff(distortions)) + 2 can give for
\* K_range = 2..max_clusters; empty when np.diff is empty and argmax raises
AutoClusters(max_clusters) == {i + 2 : i \in 0..(max_clusters - 3)}

\* what a call of infer_and_standardize_rfm left behind
Outcome ==
    [schema |-> schema, error |-> error, diagnostics |-> diagnostics]

\* used_columns kept in a set that outlives the call
SharedUsedColumns ==
    IF prev = None THEN {} ELSE {prev.schema[t] : t \in DOMAIN prev.schema}

\* used_columns: set[str] = set()
NewUsedColumns == {}

\* ----------------------------------------------------------------- actions
\* process_rfm, lines 89-104
ReadFile ==
    /\ pc = "request"
    /\ IF ~request.exists
       THEN /\ response' = Response(400, [error |-> "File not found or invalid path"])
            /\ pc' = "done"
            /\ UNCHANGED df
       ELSE IF request.extension \in {"csv", "xlsx"}
       THEN /\ df' = request.table
            /\ pc' = "derive"
            /\ UNCHANGED response
       ELSE /\ response' = Response(400, [error |-> "Unsupported file type"])
            /\ pc' = "done"
            /\ UNCHANGED df
    /\ UNCHANGED <<inferVars, stdVars, callVars>>
    /\ UNCHANGED <<rfm_df, selected_clusters, optimal_clusters, results_file>>

\* process_rfm, lines 108-114 (and 278-279 when the product raises)
DeriveAmount ==
    /\ pc = "derive"
    /\ IF {QuantityName, UnitPriceName} \subseteq Names(df)
       THEN IF CanMultiply(Col(df, QuantityName), Col(df, UnitPriceName))
            THEN /\ df' = Append(df, Column(CalculatedAmount,
                                Product(Col(df, QuantityName), Col(df, UnitPriceName))))
                 /\ pc' = "start"
                 /\ UNCHANGED response
            ELSE /\ response' = Response(500, [error |-> "TypeError"])
                 /\ pc' = "done"
                 /\ UNCHANGED df
       ELSE /\ pc' = "start"
            /\ UNCHANGED <<df, response>>
    /\ UNCHANGED <<inferVars, stdVars, callVars>>
    /\ UNCHANGED <<rfm_df, selected_clusters, optimal_clusters, results_file>>

\* infer_schema, lines 260-268: every scorer on every column
ScoreColumns ==
    /\ pc = "start"
    /\ scores' = [t \in Targets |->
                    [i \in 1..Len(df) |-> Scorer(t, df[i].name, df[i].cells)]]
    /\ mapping' = EmptyMapping
    /\ used_columns' = NewUsedColumns
    /\ pc' = "order"
    /\ UNCHANGED <<df, target_order, ti, schema, error, stdVars, appVars, callVars>>

\* infer_schema, lines 260-268, with the scorers left open: every column
\* gets some score for every target.
ScoreAny ==
    /\ pc = "start"
    /\ \E sc \in OpenScores(Len(df)) :
         scores' = [t \in Targets |->
                      [i \in 1..Len(df) |->
                         [column     |-> df[i].name,
                          score      |-> sc[t][i],
                          components |-> [open |-> sc[t][i]]]]]
    /\ mapping' = EmptyMapping
    /\ used_columns' = NewUsedColumns
    /\ pc' = "order"
    /\ UNCHANGED <<df, target_order, ti, schema, error, stdVars, appVars, callVars>>

\* infer_schema, lines 270-275
ComputeTargetOrder ==
    /\ pc = "order"
    /\ target_order' = TargetOrder(scores)
    /\ ti' = 1
    /\ pc' = "greedy"
    /\ UNCHANGED <<df, scores, mapping, used_columns, schema, error>>
    /\ UNCHANGED <<stdVars, appVars, callVars>>

\* infer_schema, lines 277-285: one iteration of the outer loop
GreedyStep ==
    /\ pc = "greedy"
    /\ ti <= Len(target_order)
    /\ LET target     == target_order[ti]
           candidates == SortedByScoreDesc(scores[target])
           hit        == FirstQualifying(candidates, used_columns, min_score)
       IN IF hit = 0
          THEN UNCHANGED <<mapping, used_columns>>
          ELSE /\ mapping' = [t \in DOMAIN mapping \cup {target} |->
                                IF t = target THEN candidates[hit].column
                                ELSE mapping[t]]
               /\ used_columns' = used_columns \cup {candidates[hit].column}
    /\ ti' = ti + 1
    /\ UNCHANGED <<df, scores, target_order, schema, error, pc>>
    /\ UNCHANGED <<stdVars, appVars, callVars>>

\* infer_schema, lines 287-309: raise with suggestions, or return
\* (mapping, scores)
CheckMissing ==
    /\ pc = "greedy"
    /\ ti > Len(target_order)
    /\ LET missing_targets == MissingTargets(mapping)
       IN IF Len(missing_targets) > 0
          THEN /\ error' = SchemaInferenceError(scores, missing_targets)
               /\ schema' = None
               /\ pc' = "raised"
          ELSE /\ error' = None
               /\ schema' = mapping
               /\ pc' = "inferred"
    /\ UNCHANGED <<df, scores, target_order, ti, mapping, used_columns>>
    /\ UNCHANGED <<stdVars, appVars, callVars>>

\* infer_and_standardize_rfm, lines 333-343
RenameAndCopy ==
    /\ pc = "inferred"
    /\ LET rename_map == RenameMap(schema)
           renamed    == RenameColumns(df, rename_map)
       IN /\ df' = renamed.caller
          /\ standardized' = renamed.copy
          /\ diagnostics' = [mapping        |-> rename_map,
                             source_columns |-> schema,
                             warnings       |-> <<>>]
    /\ pc' = "ids"
    /\ UNCHANGED <<inferVars, appVars, callVars>>

\* infer_and_standardize_rfm, lines 345-353
StandardizeCustomerIds ==
    /\ pc = "ids"
    /\ LET ids       == StrippedIds(Col(standardized, TargetName("CustomerID")))
           empty_ids == CountOf(ids, LAMBDA c : c = <<>>)
           msg       == SummariseInvalid("Blank CustomerID values detected",
                                         empty_ids, NumRows(standardized))
       IN /\ standardized' = SetCol(standardized, TargetName("CustomerID"), BlankToNa(ids))
          /\ diagnostics' = WithWarning(diagnostics, msg)
    /\ pc' = "dates"
    /\ UNCHANGED <<df, inferVars, appVars, callVars>>

\* infer_and_standardize_rfm, lines 355-362
StandardizeDates ==
    /\ pc = "dates"
    /\ LET dt  == AttemptDatetime(Col(standardized, TargetName("TransactionDate")))
           msg == SummariseInvalid("Rows with unparseable TransactionDate",
                                   dt.total - dt.valid, NumRows(standardized))
       IN /\ standardized' = SetCol(standardized, TargetName("TransactionDate"), dt.parsed)
          /\ diagnostics' = WithWarning(diagnostics, msg)
    /\ pc' = "amounts"
    /\ UNCHANGED <<df, inferVars, appVars, callVars>>

\* infer_and_standardize_rfm, lines 364-378: the amounts, the coercion
\* ratios, and the return
StandardizeAmounts ==
    /\ pc = "amounts"
    /\ LET num == AttemptNumeric(Col(standardized, TargetName("TransactionAmount")))
           dt  == Col(standardized, TargetName("TransactionDate"))
           msg == SummariseInvalid("Rows with non-numeric TransactionAmount",
                                   num.total - num.valid, NumRows(standardized))
           warned == WithWarning(diagnostics, msg)
       IN /\ standardized' = SetCol(standardized, TargetName("TransactionAmount"), FillNaZero(num.numeric))
          /\ diagnostics' =
                [mapping         |-> warned.mapping,
                 source_columns  |-> warned.source_columns,
                 warnings        |-> warned.warnings,
                 coercion_ratios |->
                    [TransactionDate   |-> Round3(CountOf(dt, LAMBDA d : d # NaN), Len(dt)),
                     TransactionAmount |-> Round3(num.valid, num.total)]]
    /\ pc' = "returned"
    /\ UNCHANGED <<df, inferVars, appVars, callVars>>

\* the SchemaInferenceError left to the handler of lines 278-279
HandleAsGenericError ==
    /\ pc = "raised"
    /\ response' = Response(500, [error |-> error.message])
    /\ pc' = "done"
    /\ UNCHANGED <<df, inferVars, stdVars, callVars>>
    /\ UNCHANGED <<rfm_df, selected_clusters, optimal_clusters, results_file>>

\* process_rfm, lines 118-120: except SchemaInferenceError
HandleSchemaInferenceError ==
    /\ pc = "raised"
    /\ response' = Response(400, [error |-> error.message, details |-> error.details])
    /\ pc' = "done"
    /\ UNCHANGED <<df, inferVars, stdVars, callVars>>
    /\ UNCHANGED <<rfm_df, selected_clusters, optimal_clusters, results_file>>

\* process_rfm, lines 122-188 (and 278-279: the scaler raises on no rows)
ComputeMetrics ==
    /\ pc = "returned"
    /\ IF KeptRows(standardized) = {}
       THEN /\ response' = Response(500, [error |-> "ValueError"])
            /\ pc' = "done"
            /\ UNCHANGED rfm_df
       ELSE /\ rfm_df' = Frequency(standardized)
            /\ pc' = "clusters"
            /\ UNCHANGED response
    /\ UNCHANGED <<df, inferVars, stdVars, callVars>>
    /\ UNCHANGED <<selected_clusters, optimal_clusters, results_file>>

\* process_rfm, lines 190-212 (and 278-279: argmax of an empty sequence)
SelectClusters ==
    /\ pc = "clusters"
    /\ \E sel \in ClusterSizes :
         LET unique_customers == Cardinality(DOMAIN rfm_df)
             max_clusters     == Min(10, unique_customers)
         IN /\ selected_clusters' = sel
            /\ IF unique_customers < 2
               THEN /\ response' = Response(400, [error |-> "Not enough unique customers for clustering"])
                    /\ pc' = "done"
                    /\ UNCHANGED optimal_clusters
               ELSE IF sel.auto
               THEN IF AutoClusters(max_clusters) = {}
                    THEN /\ response' = Response(500, [error |-> "ValueError"])
                         /\ pc' = "done"
                         /\ UNCHANGED optimal_clusters
                    ELSE /\ \E k \in AutoClusters(max_clusters) :
                              optimal_clusters' = Min(k, unique_customers)
                         /\ pc' = "apply"
                         /\ UNCHANGED response
               ELSE /\ optimal_clusters' = Min(Max(sel.value, 2), unique_customers)
                    /\ pc' = "apply"
                    /\ UNCHANGED response
    /\ UNCHANGED <<df, inferVars, stdVars, callVars, rfm_df, results_file>>

\* process_rfm, lines 214-276
ApplyClusters ==
    /\ pc = "apply"
    /\ results_file' = [request |-> runs, data |-> rfm_df]
    /\ response' = Response(200, [data           |-> DOMAIN rfm_df,
                                  download_link  |-> "/download_csv",
                                  messages       |-> diagnostics.warnings,
                                  schema_mapping |-> diagnostics.mapping])
    /\ pc' = "done"
    /\ UNCHANGED <<df, inferVars, stdVars, callVars>>
    /\ UNCHANGED <<rfm_df, selected_clusters, optimal_clusters>>

\* The same request is posted again: every local of the handler is new.
NextRequest ==
    /\ pc = "done"
    /\ runs < MaxRuns
    /\ runs' = runs + 1
    /\ prev' = Outcome
    /\ df' = None
    /\ scores' = [t \in Targets |-> <<>>]
    /\ target_order' = <<>>
    /\ ti' = 0
    /\ mapping' = EmptyMapping
    /\ used_columns' = {}
    /\ schema' = None
    /\ error' = None
    /\ standardized' = None
    /\ diagnostics' = None
    /\ rfm_df' = None
    /\ selected_clusters' = None
    /\ optimal_clusters' = 0
    /\ response' = None
    /\ pc' = "request"
    /\ UNCHANGED <<request, results_file>>

\* ------------------------------------------------------------ specification
InitLocals ==
    /\ scores = [t \in Targets |-> <<>>]
    /\ target_order = <<>>
    /\ ti = 0
    /\ mapping = EmptyMapping
    /\ used_columns = {}
    /\ schema = None
    /\ error = None
    /\ standardized = None
    /\ diagnostics = None
    /\ rfm_df = None
    /\ selected_clusters = None
    /\ optimal_clusters = 0
    /\ results_file = None
    /\ response = None
    /\ runs = 1
    /\ prev = None

\* infer_schema called on a table whose scores are left open
Init ==
    /\ request = None
    /\ \E n \in 0..MaxCols : df = OpenTable(n)
    /\ InitLocals
    /\ pc = "start"

Next ==
    \/ ScoreAny
    \/ ComputeTargetOrder
    \/ GreedyStep
    \/ CheckMissing

Spec == Init /\ [][Next]_vars

\* process_rfm posted with a file that holds a table of the catalogue
PipelineInit ==
    /\ request \in Requests
    /\ df = None
    /\ InitLocals
    /\ pc = "request"

PipelineNext ==
    \/ ReadFile
    \/ DeriveAmount
    \/ ScoreColumns
    \/ ComputeTargetOrder
    \/ GreedyStep
    \/ CheckMissing
    \/ RenameAndCopy
    \/ StandardizeCustomerIds
    \/ StandardizeDates
    \/ StandardizeAmounts
    \/ HandleSchemaInferenceError
    \/ ComputeMetrics
    \/ SelectClusters
    \/ ApplyClusters
    \/ NextRequest

PipelineSpec == PipelineInit /\ [][PipelineNext]_vars


\* ------------------------------------------------- the scorers on one series
\* the longest series that is scored
MaxSeries == 10

\* A series of a numeric cells (currency texts, no dates), d date cells and
\* x cells that are neither; the values of one kind are all the same when
\* repeated, and all different otherwise.
MixedSeries(a, d, x, repeated) ==
    [i \in 1..(a + d + x) |->
        LET k == IF repeated THEN 1 ELSE i
        IN IF i <= a THEN <<"$", DigitOf(k \div 10), DigitOf(k)>>
           ELSE IF i <= a + d THEN <<"2","0","2","3","-","0","1","-", DigitOf(k \div 10), DigitOf(k)>>
           ELSE <<"x", DigitOf(k \div 10), DigitOf(k)>>]

SeriesTables ==
    {<<Column(name, MixedSeries(a, d, x, repeated))>> :
        name \in {<<"c","u","s","t","o","m","e","r","_","i","d">>,
                  <<"s","a","l","e","_","d","a","t","e">>},
        a \in 0..MaxSeries, d \in 0..MaxSeries, x \in 0..MaxSeries,
        repeated \in BOOLEAN}

\* infer_schema called on a table of one column
ScorerInit ==
    /\ request = None
    /\ df \in {t \in SeriesTables : Len(t[1].cells) \in 1..MaxSeries}
    /\ InitLocals
    /\ pc = "start"

ScorerNext == ScoreColumns

ScorerSpec == ScorerInit /\ [][ScorerNext]_vars

\* ------------------------------------------------------------- properties
\* the score of the column named c for the role t, as computed in lines 260-264
ScoreOf(t, c) ==
    LET i == CHOOSE k \in 1..Len(scores[t]) : scores[t][k].column = c
    IN scores[t][i].score

\* the columns the greedy pass has handed out
Assigned(m) == {m[t] : t \in DOMAIN m}

\* the first column, in table order, with the highest score for the role t
FirstBest(t) ==
    CHOOSE i \in 1..Len(scores[t]) :
        /\ \A j \in 1..Len(scores[t]) : scores[t][i].score >= scores[t][j].score
        /\ \A j \in 1..(i - 1) : scores[t][j].score < scores[t][i].score

\* the positions of one call from which infer_schema has returned or raised
Resolved == {"raised", "inferred", "ids", "dates", "amounts", "returned",
             "clusters", "apply", "done"}

\* C1: the mapping never assigns one source column to two different roles:
\* after every step of the greedy pass, and in the mapping that is returned,
\* distinct roles hold distinct columns.
C1_UniqueColumns ==
    /\ \A t1 \in DOMAIN mapping : \A t2 \in DOMAIN mapping :
          t1 # t2 => mapping[t1] # mapping[t2]
    /\ \A t1 \in DOMAIN schema : \A t2 \in DOMAIN schema :
          t1 # t2 => schema[t1] # schema[t2]
    /\ Cardinality(used_columns) = Cardinality(DOMAIN mapping)

\* a complete mapping was returned although two roles had the same column as
\* their best candidate, with a qualifying score for both
C1_Witness ==
    /\ pc = "inferred"
    /\ \E t1 \in Targets : \E t2 \in Targets :
          /\ t1 # t2
          /\ scores[t1][FirstBest(t1)].column = scores[t2][FirstBest(t2)].column
          /\ scores[t1][FirstBest(t1)].score >= min_score
          /\ scores[t2][FirstBest(t2)].score >= min_score

\* C3: a role is only ever mapped to a column whose score for that role is at
\* least min_score, during the greedy pass and in the returned mapping.
C3_ScoreAtLeastMin ==
    /\ \A t \in DOMAIN mapping : ScoreOf(t, mapping[t]) >= min_score
    /\ \A t \in DOMAIN schema : ScoreOf(t, schema[t]) >= min_score

\* a role was mapped to a column scoring exactly min_score while another
\* column scored below it for the same role
C3_Witness ==
    /\ pc = "inferred"
    /\ \E t \in Targets :
          /\ ScoreOf(t, schema[t]) = min_score
          /\ \E i \in 1..Len(scores[t]) : scores[t][i].score < min_score

\* no column of the table reaches min_score for TransactionAmount
NoAmountColumn ==
    \A i \in 1..Len(scores["TransactionAmount"]) :
        scores["TransactionAmount"][i].score < min_score

\* C5: when no column reaches min_score for TransactionAmount, inference
\* raises SchemaInferenceError; its suggestions are keyed by exactly the
\* unmapped roles, an entry is null exactly when the table has no columns,
\* and otherwise it names the first column in table order with the highest
\* score for that role, with that score rounded to three decimals and its
\* components.
C5_NoAmountFails ==
    (pc \in {"raised", "inferred"} /\ NoAmountColumn) =>
        /\ pc = "raised"
        /\ error # None
        /\ schema = None
        /\ "TransactionAmount" \in Range(error.message.names)
        /\ DOMAIN error.details.suggestions = Targets \ DOMAIN mapping
        /\ \A t \in DOMAIN error.details.suggestions :
              IF Len(df) = 0
              THEN error.details.suggestions[t] = None
              ELSE error.details.suggestions[t] =
                      [best_column |-> scores[t][FirstBest(t)].column,
                       score       |-> RoundScore(scores[t][FirstBest(t)].score),
                       components  |-> scores[t][FirstBest(t)].components]

\* inference failed for want of an amount column, another role was mapped, and
\* two columns tie for the highest amount score
C5_Witness ==
    /\ pc = "raised"
    /\ NoAmountColumn
    /\ DOMAIN mapping # {}
    /\ \E i \in 1..Len(df) : \E j \in 1..Len(df) :
          /\ i < j
          /\ scores["TransactionAmount"][i].score = scores["TransactionAmount"][j].score
          /\ \A k \in 1..Len(df) :
                scores["TransactionAmount"][k].score <= scores["TransactionAmount"][i].score

\* C6 as stated: a suggestion for an unmapped role names a column whose score
\* is below min_score and which is not assigned to another role.
C6_AsStated ==
    pc = "raised" =>
        \A t \in DOMAIN error.details.suggestions :
            error.details.suggestions[t] # None =>
                /\ ScoreOf(t, error.details.suggestions[t].best_column) < min_score
                /\ error.details.suggestions[t].best_column \notin Assigned(mapping)

\* C6: a suggestion for an unmapped role names a column whose score for that
\* role is below min_score, unless the greedy pass has already assigned that
\* column to another role; the suggested column may be an assigned one.
C6_BelowMinOrTaken ==
    pc = "raised" =>
        \A t \in DOMAIN error.details.suggestions :
            error.details.suggestions[t] # None =>
                \/ ScoreOf(t, error.details.suggestions[t].best_column) < min_score
                \/ error.details.suggestions[t].best_column \in Assigned(mapping)

\* both kinds of suggestion occur in one failure: one names an unassigned
\* column below min_score, one names a column that reached min_score and
\* was taken by another role
C6_Witness ==
    /\ pc = "raised"
    /\ \E t \in DOMAIN error.details.suggestions :
          /\ error.details.suggestions[t] # None
          /\ ScoreOf(t, error.details.suggestions[t].best_column) >= min_score
          /\ error.details.suggestions[t].best_column \in Assigned(mapping)
    /\ \E t \in DOMAIN error.details.suggestions :
          /\ error.details.suggestions[t] # None
          /\ ScoreOf(t, error.details.suggestions[t].best_column) < min_score
          /\ error.details.suggestions[t].best_column \notin Assigned(mapping)


\* C2: resolution is all-or-nothing. A returned mapping has all three roles;
\* when a role is left unmapped after the greedy pass SchemaInferenceError is
\* raised, its message names exactly the unmapped roles, and neither a
\* mapping nor a standardized table nor diagnostics is returned.
C2_AllOrNothing ==
    /\ schema # None => (DOMAIN schema = Targets /\ error = None)
    /\ error # None =>
          /\ schema = None /\ standardized = None /\ diagnostics = None
          /\ Range(error.message.names) = Targets \ DOMAIN mapping
          /\ Len(error.message.names) = Cardinality(Targets \ DOMAIN mapping)
          /\ Len(error.message.names) > 0
    /\ (pc \in Resolved /\ Len(target_order) > 0 /\ DOMAIN mapping # Targets) =>
          error # None
    /\ (standardized # None \/ diagnostics # None) => schema # None

\* the greedy pass mapped two roles, the third stayed unmapped, and the
\* request was answered from the error alone
C2_Witness ==
    /\ pc = "done"
    /\ error # None
    /\ Cardinality(DOMAIN mapping) = 2
    /\ Len(error.message.names) = 1
    /\ response.status = 400

\* fuzzy name match, regex hint on the lowercased name, and every value
\* parsing as the role's type
StronglyNamed(col, t) ==
    /\ NameSimilarityScore(col.name, t) = 100
    /\ RegexHit(Lower(col.name), t)
    /\ CASE t = "CustomerID" ->
              \A r \in 1..Len(col.cells) :
                  col.cells[r] # NaN /\ Strip(col.cells[r]) # <<>>
         [] t = "TransactionDate" ->
              AttemptDatetime(col.cells).valid = Len(col.cells)
         [] t = "TransactionAmount" ->
              AttemptNumeric(col.cells).valid = Len(col.cells)

StrongColumns(t) == {i \in 1..Len(df) : StronglyNamed(df[i], t)}

\* C4 as stated: a table with exactly one strongly named column per role
\* (a numeric, highly repeated CustomerID column included) is resolved
\* successfully, each role to its strongly named column, with no warnings.
C4_AsStated ==
    (pc \in Resolved /\ \A t \in Targets : Cardinality(StrongColumns(t)) = 1) =>
        /\ error = None
        /\ schema # None
        /\ \A t \in Targets : \E i \in StrongColumns(t) : schema[t] = df[i].name
        /\ pc \in {"returned", "clusters", "apply"} => diagnostics.warnings = <<>>

\* the outcome of a call is settled
CallFinished == pc \in {"raised", "returned", "clusters", "apply", "done"}

InCall == {"start", "order", "greedy", "inferred", "ids", "dates", "amounts"}

\* C8: infer_and_standardize_rfm never changes the caller's table: no step
\* of the call, up to its return or its raise, renames a column of the table
\* passed in or changes one of its cells.
C8_CallerTableUnchanged ==
    [][(pc \in InCall) => (df' = df)]_vars

\* the call returned a table with renamed columns and coerced cells, and the
\* table passed in is still the one that was read and derived
C8_Witness ==
    /\ pc = "returned"
    /\ \E i \in 1..Len(df) :
          /\ df[i].name \in DOMAIN diagnostics.mapping
          /\ standardized[i].cells # df[i].cells
    /\ Len(diagnostics.warnings) > 0
    /\ \A i \in 1..Len(request.table) : df[i] = request.table[i]

\* a quantity-like column: a negative keyword in the normalised name and
\* small positive whole numbers as values
QuantityLike(col) ==
    /\ HasNegativeKeyword(col.name)
    /\ \A r \in 1..Len(col.cells) :
          IsSmallNumber(col.cells[r]) /\ IsPositive(col.cells[r])

\* a currency-like column: no negative keyword, at least 70% of the values
\* numeric after the currency stripping, and not plain small whole numbers
CurrencyLike(col) ==
    /\ ~HasNegativeKeyword(col.name)
    /\ Len(col.cells) > 0
    /\ RatioGe(AttemptNumeric(col.cells).valid, Len(col.cells), 7, 10)
    /\ \E r \in 1..Len(col.cells) : ~IsSmallNumber(col.cells[r])

\* C9 as stated: the amount score of a quantity-like column stays below the
\* amount score of every currency-like column of the table, also when the
\* quantity column's name hits an amount regex, so the quantity column is
\* never the one mapped to TransactionAmount.
C9_AsStated ==
    (pc \in ({"order", "greedy"} \cup Resolved) /\ Len(scores["TransactionAmount"]) = Len(df)) =>
        \A i \in 1..Len(df) : \A j \in 1..Len(df) :
            (QuantityLike(df[i]) /\ CurrencyLike(df[j])) =>
                /\ scores["TransactionAmount"][i].score < scores["TransactionAmount"][j].score
                /\ "TransactionAmount" \in DOMAIN mapping =>
                      mapping["TransactionAmount"] # df[i].name

\* C10: when inference raises SchemaInferenceError, process_rfm answers 400
\* with the error message and its details (the suggestions), and has
\* computed no metrics, chosen no clusters and written no results file.
C10_SchemaErrorIs400 ==
    (error # None /\ pc = "done") =>
        /\ response.status = 400
        /\ response.body = [error |-> error.message, details |-> error.details]
        /\ rfm_df = None
        /\ selected_clusters = None
        /\ optimal_clusters = 0
        /\ (results_file = None \/ results_file.request # runs)

\* a request failed in inference and its answer carries a suggestion
C10_Witness ==
    /\ pc = "done"
    /\ error # None
    /\ response.status = 400
    /\ \E t \in DOMAIN response.body.details.suggestions :
          response.body.details.suggestions[t] # None


\* the call has returned a standardized table
Standardized == pc \in {"returned", "clusters", "apply"}

\* the cells of the source column mapped to the role t
SourceCells(t) == Col(df, schema[t])

\* the cells that pd.to_numeric leaves missing
NonNumeric(cells) ==
    {r \in 1..Len(cells) : ToNumeric(CleanNumericText(AsStr(cells[r]))) = NaN}

\* the warnings whose text starts with the message
WarningsAbout(message) ==
    SelectSeq(diagnostics.warnings, LAMBDA w : w.message = message)

WarningOrder ==
    <<"Blank CustomerID values detected",
      "Rows with unparseable TransactionDate",
      "Rows with non-numeric TransactionAmount">>

\* C11: in every standardized table the TransactionAmount column has no
\* missing value and as many rows as the source: a cell that fails numeric
\* parsing, a missing cell included, is 0. The number of such cells is
\* reported in one 'Rows with non-numeric TransactionAmount' warning exactly
\* when it is positive, and the warnings come in the order CustomerID,
\* TransactionDate, TransactionAmount.
C11_AmountsNeverMissing ==
    Standardized =>
        LET src == SourceCells("TransactionAmount")
            out == Col(standardized, TargetName("TransactionAmount"))
            bad == NonNumeric(src)
            w   == WarningsAbout("Rows with non-numeric TransactionAmount")
        IN /\ Len(out) = Len(src)
           /\ \A r \in 1..Len(out) : out[r] # NaN
           /\ \A r \in bad : out[r] = <<"0">>
           /\ Len(w) = IF Cardinality(bad) > 0 THEN 1 ELSE 0
           /\ \A i \in 1..Len(w) : w[i].count = Cardinality(bad)
           /\ \A i \in 1..Len(diagnostics.warnings) : \A j \in 1..Len(diagnostics.warnings) :
                 i < j =>
                    \E a \in 1..3 : \E b \in 1..3 :
                        /\ a < b
                        /\ diagnostics.warnings[i].message = WarningOrder[a]
                        /\ diagnostics.warnings[j].message = WarningOrder[b]

\* a table was standardized whose amount column had a missing cell and a
\* cell that is no number, and all three warnings were given
C11_Witness ==
    /\ pc = "returned"
    /\ Len(diagnostics.warnings) = 3
    /\ \E r \in 1..NumRows(df) : SourceCells("TransactionAmount")[r] = NaN
    /\ \E r \in NonNumeric(SourceCells("TransactionAmount")) :
          SourceCells("TransactionAmount")[r] # NaN
    /\ \E r \in 1..NumRows(df) :
          Col(standardized, TargetName("TransactionAmount"))[r] \notin {NaN, <<"0">>}


\* the highest score of the role t over the columns in cols, 0 for none
TopScore(t, cols) ==
    IF cols = {} THEN 0
    ELSE LET c == CHOOSE a \in cols : \A b \in cols : ScoreOf(t, a) >= ScoreOf(t, b)
         IN ScoreOf(t, c)

\* the columns assigned to the roles processed before position k
TakenBefore(k) ==
    {mapping[target_order[i]] : i \in {n \in 1..(k - 1) : target_order[n] \in DOMAIN mapping}}

\* C12: the roles are processed in descending order of their best score over
\* all columns, an order fixed before any assignment. A processed role holds
\* a column that has the highest score for it among the columns not assigned
\* to an earlier role, and that score is at least min_score; it is left
\* unmapped exactly when every column not yet used scores below min_score.
C12_GreedyOrder ==
    pc \in {"greedy", "raised", "inferred"} =>
        /\ Len(target_order) = 3
        /\ Range(target_order) = Targets
        /\ \A i \in 1..3 : \A j \in 1..3 :
              i < j => TopScore(target_order[i], Names(df)) >= TopScore(target_order[j], Names(df))
        /\ DOMAIN mapping \subseteq {target_order[i] : i \in 1..(ti - 1)}
        /\ \A k \in 1..(ti - 1) :
              LET t    == target_order[k]
                  free == Names(df) \ TakenBefore(k)
              IN IF TopScore(t, free) >= min_score /\ free # {}
                 THEN /\ t \in DOMAIN mapping
                      /\ mapping[t] \in free
                      /\ ScoreOf(t, mapping[t]) = TopScore(t, free)
                 ELSE t \notin DOMAIN mapping

\* the roles were not processed in the order they are listed, one role got
\* its second choice because an earlier role held its best column, and a
\* later role found no free column at min_score
C12_Witness ==
    /\ pc = "raised"
    /\ target_order # TARGET_COLUMNS
    /\ \E t \in DOMAIN mapping :
          /\ ScoreOf(t, mapping[t]) < TopScore(t, Names(df))
          /\ ScoreOf(t, mapping[t]) >= min_score
    /\ \E t \in Targets \ DOMAIN mapping : TopScore(t, Names(df)) >= min_score


\* a one-to-one assignment of all three roles with every score at min_score
CompleteAssignmentExists ==
    \E f \in [Targets -> Names(df)] :
        /\ \A t1 \in Targets : \A t2 \in Targets : t1 # t2 => f[t1] # f[t2]
        /\ \A t \in Targets : ScoreOf(t, f[t]) >= min_score

\* the columns at min_score for the role t
Qualifying(t) == {c \in Names(df) : ScoreOf(t, c) >= min_score}

\* the place of the role t in target_order
PlaceOf(t) == CHOOSE k \in 1..Len(target_order) : target_order[k] = t

\* C13: the greedy resolver is not an optimal matching. infer_schema can
\* raise although a one-to-one assignment of the three roles at min_score
\* exists, and whenever it does the table has at least three columns and
\* every qualifying column of an unmapped role is held by a role that was
\* resolved earlier.
C13_GreedyNotOptimal ==
    (pc = "raised" /\ CompleteAssignmentExists) =>
        /\ Len(df) >= 3
        /\ \A t \in Targets \ DOMAIN mapping :
              /\ Qualifying(t) # {}
              /\ Qualifying(t) \subseteq TakenBefore(PlaceOf(t))

\* inference raised on a table that has a complete assignment: the one
\* qualifying column of the unmapped role belongs to an earlier role that
\* had another qualifying column
C13_Witness ==
    /\ pc = "raised"
    /\ CompleteAssignmentExists
    /\ \E t \in Targets \ DOMAIN mapping :
          /\ Cardinality(Qualifying(t)) = 1
          /\ \E e \in DOMAIN mapping :
                /\ PlaceOf(e) < PlaceOf(t)
                /\ mapping[e] \in Qualifying(t)
                /\ Cardinality(Qualifying(e)) > 1


\* the scores of the table's columns are computed
Scored ==
    /\ pc \in ({"order", "greedy"} \cup Resolved)
    /\ Len(scores["TransactionAmount"]) = Len(df)

\* the five negative keywords of the claim
StatedNegativeKeywords ==
    {<<"q","u","a","n","t","i","t","y">>, <<"q","t","y">>,
     <<"c","o","u","n","t">>, <<"u","n","i","t","s">>,
     <<"v","o","l","u","m","e">>}

\* the amount score of a column before any penalty for its name: the name
\* part, 0.6 or 0.4 for the numeric ratio, 0.1 for positive values, and the
\* x0.4 for a column that reads as dates
AmountBeforeNamePenalty(column_name, series) ==
    LET non_null == DropNa(series)
        num      == AttemptNumeric(non_null)
        parsed   == DropNa(num.numeric)
        dt       == AttemptDatetime(non_null)
        typed    == NamePart(column_name, "TransactionAmount")
                    + (IF RatioGe(num.valid, num.total, 7, 10) THEN (6 * ONE) \div 10
                       ELSE IF RatioGe(num.valid, num.total, 5, 10) THEN (4 * ONE) \div 10
                       ELSE 0)
        signed   == IF num.valid > 0 /\ RatioGe(CountOf(parsed, IsPositive), Len(parsed), 7, 10)
                    THEN typed + ONE \div 10 ELSE typed
    IN IF RatioGt(dt.valid, dt.total, 4, 10) /\ RatioLt(num.valid, num.total, 5, 10)
       THEN (signed * 4) \div 10 ELSE signed

\* C14 as stated: the amount score of a column is halved exactly when its
\* normalised name contains quantity, qty, count, units or volume; a column
\* with none of the five in its name, such as 'unit price', keeps its score.
C14_AsStated ==
    Scored =>
        \A i \in 1..Len(df) :
            Len(DropNa(df[i].cells)) > 0 =>
                LET before == AmountBeforeNamePenalty(df[i].name, df[i].cells)
                IN scores["TransactionAmount"][i].score =
                      IF ContainsAny(NormaliseColumnName(df[i].name), StatedNegativeKeywords)
                      THEN Min((before * 5) \div 10, ONE)
                      ELSE Min(before, ONE)


\* the CustomerID score of a series before the penalty for numeric values
CustomerIdBeforePenalty(column_name, series) ==
    LET non_null == DropNa(series)
        nunique  == Cardinality(Range(non_null))
        total    == Max(Len(non_null), 1)
    IN NamePart(column_name, "CustomerID") + (Min(nunique, total) * (ONE \div 2)) \div total

\* the TransactionDate score of a series before the penalty for numeric values
DateBeforePenalty(column_name, series) ==
    LET dt == AttemptDatetime(DropNa(series))
    IN NamePart(column_name, "TransactionDate")
       + (IF RatioGe(dt.valid, dt.total, 7, 10) THEN (6 * ONE) \div 10
          ELSE IF RatioGe(dt.valid, dt.total, 4, 10) THEN (35 * ONE) \div 100
          ELSE 0)

\* C15 as stated: the CustomerID score is multiplied by 0.6 exactly when the
\* numeric-parse ratio is at least 0.9 and the uniqueness ratio is below 0.3,
\* so also at exactly 90%; the TransactionDate score is multiplied by 0.5
\* exactly when the numeric-parse ratio is at least 0.8 and the date-parse
\* ratio is below 0.4.
C15_AsStated ==
    Scored =>
        \A i \in 1..Len(df) :
            Len(DropNa(df[i].cells)) > 0 =>
                LET non_null == DropNa(df[i].cells)
                    total    == Len(non_null)
                    num      == AttemptNumeric(non_null)
                    dt       == AttemptDatetime(non_null)
                    nunique  == Cardinality(Range(non_null))
                    id       == CustomerIdBeforePenalty(df[i].name, df[i].cells)
                    date     == DateBeforePenalty(df[i].name, df[i].cells)
                IN /\ scores["CustomerID"][i].score =
                        IF RatioGe(num.valid, total, 9, 10) /\ RatioLt(nunique, total, 3, 10)
                        THEN Min((id * 6) \div 10, ONE) ELSE Min(id, ONE)
                   /\ scores["TransactionDate"][i].score =
                        IF RatioGe(num.valid, total, 8, 10) /\ RatioLt(dt.valid, total, 4, 10)
                        THEN Min((date * 5) \div 10, ONE) ELSE Min(date, ONE)


\* the source cell is missing or holds only whitespace
MissingOrBlank(c) == IF c = NaN THEN TRUE ELSE Strip(c) = <<>>

\* C16 as stated: after standardization the CustomerID of a row is missing
\* exactly when the source cell was missing or blank; those rows are the ones
\* counted in the 'Blank CustomerID values detected' warning, and process_rfm
\* drops them instead of grouping them as a customer.
C16_AsStated ==
    Standardized =>
        LET src  == SourceCells("CustomerID")
            out  == Col(standardized, TargetName("CustomerID"))
            gone == {r \in 1..Len(src) : MissingOrBlank(src[r])}
            w    == WarningsAbout("Blank CustomerID values detected")
        IN /\ \A r \in 1..Len(src) : (out[r] = NaN) <=> (r \in gone)
           /\ Len(w) = IF gone = {} THEN 0 ELSE 1
           /\ \A i \in 1..Len(w) : w[i].count = Cardinality(gone)
           /\ \A r \in gone : r \notin KeptRows(standardized)


\* C17 as stated: for a request whose table has at least two unique
\* customers, with cluster_size 'auto' or a number, choosing the number of
\* clusters ends without an error and the number k that is applied has
\* 2 <= k <= the number of unique customers, and k <= 10 for 'auto'; so
\* 'auto' with exactly two customers applies 2 clusters and gives no 500.
C17_AsStated ==
    (selected_clusters # None /\ Cardinality(DOMAIN rfm_df) >= 2) =>
        /\ pc \in {"apply", "done"}
        /\ pc = "done" => response.status = 200
        /\ optimal_clusters >= 2
        /\ optimal_clusters <= Cardinality(DOMAIN rfm_df)
        /\ selected_clusters.auto => optimal_clusters <= 10

====
